---- MODULE Spec2Model ----
(***************************************************************************)
(* Rush-Hour solver (solve.py): A* and depth-first search over boards of   *)
(* sliding vehicles, the successor generator and the two heuristics.       *)
(*                                                                         *)
(* Coordinates are 0-based as in the source: grid[row][col] is modelled by *)
(* functions over 0..size-1.  A search node (State) refers to its parent   *)
(* by the parent's position in the explored list (0 for None): a node gets *)
(* children only while it is being expanded, right after it was appended   *)
(* to explored, so every parent reference points into that list.           *)
(***************************************************************************)
EXTENDS Integers, Sequences, FiniteSets, TLC

VARIABLES
    fn,          \* the search function that is running: "a_star" or "dfs"
    hfn,         \* its heuristic argument: "blocking", "advanced" or "zero"
    seed,        \* the process's hash seed (fixes the order of identities)
    init_board,  \* the init_board argument
    pc,          \* "start", "loop" (at the while test) or "done" (returned)
    frontier,    \* a_star: the heap's entries <<key, state>>; dfs: the stack
    explored,    \* the explored list, in the order of acceptance
    path,        \* the returned path
    cost,        \* the returned cost
    popped,      \* history: how many nodes the loop has popped so far
    pops,        \* history: the popped frontier items in the order of the pops,
                 \* each with its position in explored (0 if it was discarded)
    count,       \* a_star_node_expanded: the local variable count
    returned     \* a_star_node_expanded: the tuple it returned, <<>> before

vars == <<fn, hfn, seed, init_board, pc, frontier, explored, path, cost, popped,
          pops, count, returned>>

----------------------------------------------------------------------------
(* Bounds of the model *)

\* at most this many vehicles besides the exit vehicle on an initial board
\* given to a_star
MaxOthers == 3

\* at most this many vehicles besides the exit vehicle on an initial board
\* given to dfs
MaxOthersDfs == 2

\* at most this many vehicles besides the exit vehicle on an initial board
\* given to a_star_node_expanded
MaxOthersExpanded == 2

\* the initial boards draw their other vehicles from the first NumCat
\* entries of Catalogue
NumCat == 6

\* the number of hash seeds tried
NumSeeds == 2

----------------------------------------------------------------------------
(* Program constants *)

\* the canonical board is 6 x 6 (advanced_heuristic reads rows 0..5)
BoardSize == 6

\* the exit row of is_goal and of the heuristics
ExitRow == 2

\* the column of the exit vehicle's "<" on a goal board
ExitCol == 4

----------------------------------------------------------------------------
(* Sequences helpers *)

Min(S) == CHOOSE x \in S : \A y \in S : x <= y

Max(S) == CHOOSE x \in S : \A y \in S : x >= y

\* list.reverse()
Reverse(s) == [k \in 1..Len(s) |-> s[Len(s) + 1 - k]]

\* a pop that returns the element and leaves it in the list
RemoveAt_Peek(s, k) == s

\* the list without its k-th element
RemoveAt(s, k) == [j \in 1..(Len(s) - 1) |-> IF j < k THEN s[j] ELSE s[j + 1]]

RECURSIVE Concat(_)
\* the concatenation of a sequence of sequences
Concat(ss) == IF ss = <<>> THEN <<>> ELSE Head(ss) \o Concat(Tail(ss))

----------------------------------------------------------------------------
(* Board and Car (board.py) *)

\* a vehicle: orientation "h" or "v", the fixed coordinate (row of a
\* horizontal vehicle, column of a vertical one), the low end on the moving
\* axis, and the length
Car(orientation, fix_coord, var_coord, length) ==
    [orientation |-> orientation, fix_coord |-> fix_coord,
     var_coord |-> var_coord, length |-> length]

\* Car.set_coord
set_coord(car, coord) == [car EXCEPT !.var_coord = coord]

\* the vehicle covers cell (r, c)
Covers(car, r, c) ==
    IF car.orientation = "h"
    THEN r = car.fix_coord /\ c >= car.var_coord /\ c < car.var_coord + car.length
    ELSE c = car.fix_coord /\ r >= car.var_coord /\ r < car.var_coord + car.length

\* the glyph of the k-th cell (k = 0 .. length-1) of a vehicle
CarGlyph(car, k) ==
    IF car.orientation = "h"
    THEN (IF k = car.length - 1 THEN ">" ELSE IF k = 0 THEN "<" ELSE "-")
    ELSE (IF k = car.length - 1 THEN "v" ELSE IF k = 0 THEN "^" ELSE "|")

\* the grid, rebuilt from the vehicle list: "." where no vehicle lies, the
\* glyph of the last vehicle written otherwise
construct_grid(size, cars) ==
    [r \in 0..(size - 1) |->
        [c \in 0..(size - 1) |->
            LET on == {i \in 1..Len(cars) : Covers(cars[i], r, c)}
            IN  IF on = {} THEN "."
                ELSE LET car == cars[Max(on)]
                     IN  CarGlyph(car, IF car.orientation = "h"
                                       THEN c - car.var_coord
                                       ELSE r - car.var_coord)]]

\* Board(name, size, cars)
Board(name, size, cars) ==
    [name |-> name, size |-> size, cars |-> cars,
     grid |-> construct_grid(size, cars)]

\* the rank of a glyph under the hash seed s: a permutation of 0..6
GlyphRank(s, g) ==
    LET code == CASE g = "." -> 0 [] g = "<" -> 1 [] g = "-" -> 2
                  [] g = ">" -> 3 [] g = "^" -> 4 [] g = "|" -> 5
                  [] OTHER -> 6
    IN  (code * ((s % 6) + 1) + s) % 7

RECURSIVE RowCode(_, _, _)
\* one row of the grid as a base-7 number of glyph ranks
RowCode(s, row, c) ==
    IF c < 0 THEN 0 ELSE GlyphRank(s, row[c]) + 7 * RowCode(s, row, c - 1)

\* hash(board): a value derived from the grid contents alone, equal for
\* equal grids and different for different grids; the seed fixes the order.
\* It is the tuple of the row codes, compared lexicographically.
hash(board) ==
    [r \in 1..board.size |-> RowCode(seed, board.grid[r - 1], board.size - 1)]

\* the integer 0 that a_star uses as the parent identity of the initial node
ZeroId == [r \in 1..BoardSize |-> 0]

\* id1 < id2 on identities
IdLess(a, b) ==
    \E k \in 1..Len(a) : a[k] < b[k] /\ \A j \in 1..(k - 1) : a[j] = b[j]

\* State(board, hfn, f, depth, parent)
State(board, h, f, depth, parent) ==
    [board |-> board, hfn |-> h, f |-> f, depth |-> depth,
     parent |-> parent, id |-> hash(board)]

\* zero_heuristic
zero_heuristic(board) == 0

----------------------------------------------------------------------------
(* is_goal and the heuristics (solve.py) *)

\* row.index(g): the first column of the row holding glyph g
index(row, g) == Min({c \in DOMAIN row : row[c] = g})

\* is_goal(state)
is_goal(state) ==
    /\ state.board.grid[ExitRow][ExitCol] = "<"
    /\ state.board.grid[ExitRow][ExitCol + 1] = ">"

\* blocking_heuristic with the count started at 0
blocking_heuristic_CountFromZero(board) ==
    IF board.grid[ExitRow][ExitCol] = "<" /\ board.grid[ExitRow][ExitCol + 1] = ">"
    THEN 0
    ELSE LET exitRow == board.grid[ExitRow]
         IN  Cardinality({i \in (index(exitRow, ">") + 1)..(board.size - 1) :
                             exitRow[i] # "."})

\* blocking_heuristic(board)
blocking_heuristic(board) ==
    IF board.grid[ExitRow][ExitCol] = "<" /\ board.grid[ExitRow][ExitCol + 1] = ">"
    THEN 0
    ELSE LET exitRow == board.grid[ExitRow]
         IN  1 + Cardinality({i \in (index(exitRow, ">") + 1)..(board.size - 1) :
                                 exitRow[i] # "."})

\* advanced_heuristic(board)
advanced_heuristic(board) ==
    LET g == board.grid
        num_cars_blocking == blocking_heuristic(board)
        nonfree == {i \in (index(g[ExitRow], ">") + 1)..(board.size - 1) :
                       g[ExitRow][i] # "."}
    IN  IF nonfree = {} THEN num_cars_blocking
        ELSE
          LET i == Min(nonfree)
              movable_up ==
                  /\ g[2][i] # "|"
                  /\ (g[2][i] # "v" \/ g[1][i] # "|")
                  /\ (g[2][i] # "^" \/ g[3][i] # "|")
              num_top_cars ==
                  Cardinality({r \in {0, 1} : g[r][i] \in {"v", ">", "<", "-"}})
              num_cars_blocking_up ==
                  IF movable_up THEN num_top_cars ELSE Len(board.cars) + 1
              num_bot_cars ==
                  Cardinality({r \in {3, 4, 5} : g[r][i] \in {"^", ">", "<", "-"}})
              num_cars_blocking_down == num_bot_cars
          IN  num_cars_blocking
                + (IF num_cars_blocking_up < num_cars_blocking_down
                   THEN num_cars_blocking_up ELSE num_cars_blocking_down)

\* calling the heuristic function h on a board
ApplyHfn(h, board) ==
    CASE h = "blocking" -> blocking_heuristic(board)
      [] h = "advanced" -> advanced_heuristic(board)
      [] OTHER -> zero_heuristic(board)

----------------------------------------------------------------------------
(* The successor generator (solve.py) *)

\* addNeighbour that passes state.depth on without adding 1
addNeighbour_SameDepth(state, ref, cars) ==
    LET newBoard == Board(state.board.name, state.board.size, cars)
        newState == State(newBoard, state.hfn, 0, state.depth, ref)
    IN  [newState EXCEPT !.f = ApplyHfn(newState.hfn, newBoard) + newState.depth]

\* addNeighbour that sets f to the heuristic value alone
addNeighbour_HeuristicOnly(state, ref, cars) ==
    LET newBoard == Board(state.board.name, state.board.size, cars)
        newState == State(newBoard, state.hfn, 0, state.depth + 1, ref)
    IN  [newState EXCEPT !.f = ApplyHfn(newState.hfn, newBoard)]

\* addNeighbour: the new State built from the moved copy of the vehicle list;
\* ref is the reference to state (its position in explored)
addNeighbour(state, ref, cars) ==
    LET newBoard == Board(state.board.name, state.board.size, cars)
        newState == State(newBoard, state.hfn, 0, state.depth + 1, ref)
    IN  [newState EXCEPT !.f = ApplyHfn(newState.hfn, newBoard) + newState.depth]

RECURSIVE MovingUp_Through(_, _, _)
\* the scan upwards that does not look at the cells
MovingUp_Through(board, car, y) ==
    IF y < 0 THEN <<>>
    ELSE <<y>> \o MovingUp_Through(board, car, y - 1)

RECURSIVE MovingUp(_, _, _)
\* for yCoord in range(y, -1, -1): the rows visited before the break
MovingUp(board, car, y) ==
    IF y < 0 \/ board.grid[y][car.fix_coord] # "." THEN <<>>
    ELSE <<y>> \o MovingUp(board, car, y - 1)

RECURSIVE MovingDown(_, _, _)
\* for yCoord in range(y, board.size): the rows visited before the break
MovingDown(board, car, y) ==
    IF y >= board.size \/ board.grid[y][car.fix_coord] # "." THEN <<>>
    ELSE <<y>> \o MovingDown(board, car, y + 1)

\* the scan to the left that yields the farthest free cell of the run only
MovingLeft_Farthest(board, car, x) ==
    LET run == {c \in 0..x : \A d \in c..x : board.grid[car.fix_coord][d] = "."}
    IN  IF run = {} THEN <<>> ELSE <<Min(run)>>

RECURSIVE MovingLeft(_, _, _)
\* for xCoord in range(x, -1, -1): the columns visited before the break
MovingLeft(board, car, x) ==
    IF x < 0 \/ board.grid[car.fix_coord][x] # "." THEN <<>>
    ELSE <<x>> \o MovingLeft(board, car, x - 1)

RECURSIVE MovingRight_NoBreak(_, _, _)
\* the scan to the right with the occupied cells skipped instead of ending it
MovingRight_NoBreak(board, car, x) ==
    IF x >= board.size THEN <<>>
    ELSE (IF board.grid[car.fix_coord][x] # "." THEN <<>> ELSE <<x>>)
         \o MovingRight_NoBreak(board, car, x + 1)

\* the scan to the right started on the vehicle's own last cell
MovingRight_OffByOne(board, car, x) ==
    IF x - 1 >= board.size \/ board.grid[car.fix_coord][x - 1] # "." THEN <<>>
    ELSE <<x - 1>>

\* the scan to the right that yields the adjacent cell only
MovingRight_OneStep(board, car, x) ==
    IF x >= board.size \/ board.grid[car.fix_coord][x] # "." THEN <<>>
    ELSE <<x>>

RECURSIVE MovingRight(_, _, _)
\* for xCoord in range(x, board.size): the columns visited before the break
MovingRight(board, car, x) ==
    IF x >= board.size \/ board.grid[car.fix_coord][x] # "." THEN <<>>
    ELSE <<x>> \o MovingRight(board, car, x + 1)

\* addVerticalNeighbours(state, i, neighbours): the states it appends, moving
\* up first, then moving down
addVerticalNeighbours(state, ref, i) ==
    LET board == state.board
        car == board.cars[i]
        up == MovingUp(board, car, car.var_coord - 1)
        down == MovingDown(board, car, car.var_coord + car.length)
    IN  [k \in 1..Len(up) |->
            addNeighbour(state, ref,
                [board.cars EXCEPT ![i] = set_coord(car, up[k])])]
        \o
        [k \in 1..Len(down) |->
            addNeighbour(state, ref,
                [board.cars EXCEPT ![i] = set_coord(car, down[k] - car.length + 1)])]

\* addHorizontalNeighbours without copy.deepcopy: every set_coord acts on the
\* one shared vehicle list, so each new board keeps the grid built at its own
\* step while its vehicle list ends up with the coordinate set last
addHorizontalNeighbours_NoCopy(state, ref, i) ==
    LET board == state.board
        car == board.cars[i]
        left == MovingLeft(board, car, car.var_coord - 1)
        right == MovingRight(board, car, car.var_coord + car.length)
        coords == left \o [k \in 1..Len(right) |-> right[k] - car.length + 1]
    IN  [k \in 1..Len(coords) |->
            [addNeighbour(state, ref,
                 [board.cars EXCEPT ![i] = set_coord(car, coords[k])])
             EXCEPT !.board.cars =
                 [board.cars EXCEPT ![i] = set_coord(car, coords[Len(coords)])]]]

\* addHorizontalNeighbours(state, i, neighbours): the states it appends,
\* moving left first, then moving right
addHorizontalNeighbours(state, ref, i) ==
    LET board == state.board
        car == board.cars[i]
        left == MovingLeft(board, car, car.var_coord - 1)
        right == MovingRight(board, car, car.var_coord + car.length)
    IN  [k \in 1..Len(left) |->
            addNeighbour(state, ref,
                [board.cars EXCEPT ![i] = set_coord(car, left[k])])]
        \o
        [k \in 1..Len(right) |->
            addNeighbour(state, ref,
                [board.cars EXCEPT ![i] = set_coord(car, right[k] - car.length + 1)])]

\* get_successors(state)
get_successors(state, ref) ==
    Concat([i \in 1..Len(state.board.cars) |->
               IF state.board.cars[i].orientation = "h"
               THEN addHorizontalNeighbours(state, ref, i)
               ELSE addVerticalNeighbours(state, ref, i)])

RECURSIVE ParentChain(_, _)
\* state, state.parent, ... up to the node without parent; expl holds the
\* nodes the parent references point to
ParentChain(state, expl) ==
    IF state.parent = 0 THEN <<state>>
    ELSE <<state>> \o ParentChain(expl[state.parent], expl)

\* get_path(state)
get_path(state) == Reverse(ParentChain(state, explored))

----------------------------------------------------------------------------
(* The frontier of a_star (heapq) and of dfs (a list used as a stack) *)

\* key1 < key2 on the heap keys (f, id, parent id), as Python compares tuples
KeyLess(k1, k2) ==
    \/ k1[1] < k2[1]
    \/ k1[1] = k2[1] /\ IdLess(k1[2], k2[2])
    \/ k1[1] = k2[1] /\ k1[2] = k2[2] /\ IdLess(k1[3], k2[3])

\* hq.heappush(heap, item)
heappush(heap, item) == Append(heap, item)

RECURSIVE PushAll_NoParentId(_, _, _)
\* the pushes with 0 in place of the parent identity in every key
PushAll_NoParentId(heap, neighbours, expl) ==
    IF neighbours = <<>> THEN heap
    ELSE LET neighbour == Head(neighbours)
         IN  PushAll_NoParentId(
                 heappush(heap, <<<<neighbour.f, neighbour.id, ZeroId>>, neighbour>>),
                 Tail(neighbours), expl)

RECURSIVE PushAll(_, _, _)
\* for neighbour in neighbours: hq.heappush(frontier, (key, neighbour))
PushAll(heap, neighbours, expl) ==
    IF neighbours = <<>> THEN heap
    ELSE LET neighbour == Head(neighbours)
         IN  PushAll(heappush(heap, <<<<neighbour.f, neighbour.id,
                                         expl[neighbour.parent].id>>, neighbour>>),
                     Tail(neighbours), expl)

\* the positions hq.heappop may return: those of a smallest item
HeapTop(heap) ==
    {j \in 1..Len(heap) : \A k \in 1..Len(heap) : ~KeyLess(heap[k][1], heap[j][1])}

RECURSIVE InsertDesc_Ascending(_, _)
\* the insertion for a sort by ascending id
InsertDesc_Ascending(s, x) ==
    IF s = <<>> THEN <<x>>
    ELSE IF IdLess(x.id, Head(s).id) THEN <<x>> \o s
    ELSE <<Head(s)>> \o InsertDesc_Ascending(Tail(s), x)

RECURSIVE InsertDesc(_, _)
\* s, sorted by descending id, with x put behind every element whose id is
\* not smaller than its own
InsertDesc(s, x) ==
    IF s = <<>> THEN <<x>>
    ELSE IF IdLess(Head(s).id, x.id) THEN <<x>> \o s
    ELSE <<Head(s)>> \o InsertDesc(Tail(s), x)

RECURSIVE SortDesc(_, _)
\* neighbours.sort(key=lambda n: n.id, reverse=True), acc the sorted prefix
SortDesc(acc, s) ==
    IF s = <<>> THEN acc ELSE SortDesc(InsertDesc(acc, Head(s)), Tail(s))

\* the membership test done on the nodes themselves instead of their ids
InExplored_ByObject(state) == \E k \in 1..Len(explored) : explored[k] = state

\* any(s.id == state.id for s in explored)
InExplored(state) == \E k \in 1..Len(explored) : explored[k].id = state.id

----------------------------------------------------------------------------
(* The initial boards *)

\* the exit vehicle: horizontal, length 2, in the exit row
ExitCar(x) == Car("h", ExitRow, x, 2)

\* the other vehicles an initial board may hold
Catalogue ==
    << Car("h", 2, 0, 2),    \* in the exit row, left of the exit vehicle
       Car("v", 5, 1, 2),    \* crossing the exit row in column 5
       Car("v", 2, 1, 2),    \* crossing the exit row in column 2
       Car("h", 0, 3, 3),    \* in row 0 over columns 3..5
       Car("h", 5, 3, 3),    \* in row 5 over columns 3..5
       Car("h", 2, 3, 3),    \* in the exit row, right of the exit vehicle
       Car("v", 3, 3, 3),    \* below the exit row in column 3
       Car("v", 4, 0, 2) >>  \* above the exit row in column 4

RECURSIVE Pick(_, _)
\* the catalogue entries with index in S, from index k on, in index order
Pick(S, k) ==
    IF k > Len(Catalogue) THEN <<>>
    ELSE (IF k \in S THEN <<Catalogue[k]>> ELSE <<>>) \o Pick(S, k + 1)

\* the input contract: every vehicle inside the grid, no two overlapping
WellFormed(size, cars) ==
    /\ \A i \in 1..Len(cars) :
          /\ cars[i].fix_coord \in 0..(size - 1)
          /\ cars[i].var_coord >= 0
          /\ cars[i].var_coord + cars[i].length <= size
    /\ \A r, c \in 0..(size - 1) :
          Cardinality({i \in 1..Len(cars) : Covers(cars[i], r, c)}) <= 1

\* the initial boards with at most n vehicles besides the exit vehicle
InitBoards(n) ==
    LET catN == IF NumCat < Len(Catalogue) THEN NumCat ELSE Len(Catalogue)
        lists == {<<ExitCar(x)>> \o Pick(S, 1) :
                     x \in 0..(BoardSize - 2),
                     S \in {T \in SUBSET (1..catN) : Cardinality(T) <= n}}
    IN  {Board("jam", BoardSize, cars) :
            cars \in {l \in lists : WellFormed(BoardSize, l)}}

----------------------------------------------------------------------------
(* The state machine *)

Init ==
    /\ seed \in 0..(NumSeeds - 1)
    /\ \E call \in {<<"a_star", "blocking">>, <<"a_star", "advanced">>,
                     <<"dfs", "zero">>} :
          fn = call[1] /\ hfn = call[2]
    /\ init_board \in InitBoards(IF fn = "dfs" THEN MaxOthersDfs ELSE MaxOthers)
    /\ pc = "start"
    /\ frontier = <<>>
    /\ explored = <<>>
    /\ path = <<>>
    /\ cost = 0
    /\ popped = 0
    /\ pops = <<>>
    /\ count = 0
    /\ returned = <<>>

\* a_star, lines 24-29: the initial state is pushed
a_star_start ==
    /\ pc = "start" /\ fn = "a_star"
    /\ LET init_state == State(init_board, hfn, ApplyHfn(hfn, init_board), 0, 0)
       IN  frontier' = heappush(<<>>, <<<<init_state.f, init_state.id, ZeroId>>,
                                        init_state>>)
    /\ explored' = <<>>
    /\ pc' = "loop"
    /\ UNCHANGED <<fn, hfn, seed, init_board, path, cost, popped, pops, count, returned>>

\* a_star, lines 31-43: one iteration of the while loop
a_star_loop ==
    /\ pc = "loop" /\ fn = "a_star" /\ Len(frontier) # 0
    /\ \E j \in HeapTop(frontier) :
          LET state == frontier[j][2]
              rest == RemoveAt(frontier, j)
          IN  /\ pops' = Append(pops, [item |-> frontier[j],
                                        ref |-> IF InExplored(state) THEN 0
                                                ELSE Len(explored) + 1])
              /\ IF ~InExplored(state)
                 THEN /\ explored' = Append(explored, state)
                      /\ IF is_goal(state)
                         THEN /\ path' = get_path(state)
                              /\ cost' = Len(path') - 1
                              /\ pc' = "done"
                              /\ frontier' = rest
                         ELSE /\ frontier' =
                                   PushAll(rest,
                                           get_successors(state, Len(explored) + 1),
                                           explored')
                              /\ UNCHANGED <<path, cost, pc>>
                 ELSE /\ frontier' = rest
                      /\ UNCHANGED <<explored, path, cost, pc>>
    /\ popped' = popped + 1
    /\ UNCHANGED <<fn, hfn, seed, init_board, count, returned>>

\* a_star, line 47: the frontier is empty
a_star_exit ==
    /\ pc = "loop" /\ fn = "a_star" /\ Len(frontier) = 0
    /\ path' = <<>>
    /\ cost' = -1
    /\ pc' = "done"
    /\ UNCHANGED <<fn, hfn, seed, init_board, frontier, explored, popped, pops,
                   count, returned>>

\* dfs, lines 63-65
dfs_start ==
    /\ pc = "start" /\ fn = "dfs"
    /\ frontier' = <<State(init_board, "zero", 0, 0, 0)>>
    /\ explored' = <<>>
    /\ pc' = "loop"
    /\ UNCHANGED <<fn, hfn, seed, init_board, path, cost, popped, pops, count, returned>>

\* dfs, lines 67-78: one iteration of the while loop
dfs_loop ==
    /\ pc = "loop" /\ fn = "dfs" /\ Len(frontier) # 0
    /\ LET state == frontier[Len(frontier)]
           rest == SubSeq(frontier, 1, Len(frontier) - 1)
       IN  /\ pops' = Append(pops, [item |-> state,
                                     ref |-> IF InExplored(state) THEN 0
                                             ELSE Len(explored) + 1])
           /\ IF ~InExplored(state)
              THEN /\ explored' = Append(explored, state)
                   /\ IF is_goal(state)
                      THEN /\ path' = get_path(state)
                           /\ cost' = Len(path') - 1
                           /\ pc' = "done"
                           /\ frontier' = rest
                      ELSE /\ frontier' =
                                rest \o SortDesc(<<>>,
                                    get_successors(state, Len(explored) + 1))
                           /\ UNCHANGED <<path, cost, pc>>
              ELSE /\ frontier' = rest
                   /\ UNCHANGED <<explored, path, cost, pc>>
    /\ popped' = popped + 1
    /\ UNCHANGED <<fn, hfn, seed, init_board, count, returned>>

\* dfs, line 80: the frontier is empty
dfs_exit ==
    /\ pc = "loop" /\ fn = "dfs" /\ Len(frontier) = 0
    /\ path' = <<>>
    /\ cost' = -1
    /\ pc' = "done"
    /\ UNCHANGED <<fn, hfn, seed, init_board, frontier, explored, popped, pops,
                   count, returned>>

Next ==
    \/ a_star_start
    \/ a_star_loop
    \/ a_star_exit
    \/ dfs_start
    \/ dfs_loop
    \/ dfs_exit

Spec == Init /\ [][Next]_vars

\* while len(frontier) != 0, read at the top of the loop
LoopEnabled == pc = "loop" /\ Len(frontier) # 0

\* The search is one sequential loop that keeps running until it returns:
\* weak fairness of every action.  For the two loop actions WF_vars(A) is
\* written out as []<>~ENABLED <<A>>_vars \/ []<><<A>>_vars with LoopEnabled
\* for ENABLED <<A>>_vars: an iteration can run whenever the frontier is not
\* empty (NextEnabled) and it changes popped.
FairSpec ==
    /\ Spec
    /\ WF_vars(a_star_start) /\ WF_vars(dfs_start)
    /\ WF_vars(a_star_exit) /\ WF_vars(dfs_exit)
    /\ ([]<>~LoopEnabled \/ []<><<a_star_loop \/ dfs_loop>>_vars)

\* at the top of the loop the heap has a smallest item whenever it is not
\* empty
NextEnabled ==
    (LoopEnabled /\ fn = "a_star") => HeapTop(frontier) # {}

----------------------------------------------------------------------------
(* a_star_node_expanded, and a_star called on the same arguments after it  *)

\* a_star_node_expanded, lines 282-288: the initial state is pushed
a_star_node_expanded_start ==
    /\ pc = "start" /\ fn = "a_star_node_expanded"
    /\ count' = 0
    /\ LET init_state == State(init_board, hfn, ApplyHfn(hfn, init_board), 0, 0)
       IN  frontier' = heappush(<<>>, <<<<init_state.f, init_state.id, ZeroId>>,
                                        init_state>>)
    /\ explored' = <<>>
    /\ pc' = "loop"
    /\ UNCHANGED <<fn, hfn, seed, init_board, path, cost, popped, pops, returned>>

\* the loop with count incremented for the accepted nodes only
a_star_node_expanded_loop_CountAccepted ==
    /\ pc = "loop" /\ fn = "a_star_node_expanded" /\ Len(frontier) # 0
    /\ \E j \in HeapTop(frontier) :
          LET state == frontier[j][2]
              rest == RemoveAt(frontier, j)
          IN  /\ pops' = Append(pops, [item |-> frontier[j],
                                        ref |-> IF InExplored(state) THEN 0
                                                ELSE Len(explored) + 1])
              /\ IF ~InExplored(state)
                 THEN /\ count' = count + 1
                      /\ explored' = Append(explored, state)
                      /\ IF is_goal(state)
                         THEN /\ path' = get_path(state)
                              /\ cost' = Len(path') - 1
                              /\ returned' = <<path', cost', count'>>
                              /\ pc' = "done"
                              /\ frontier' = rest
                         ELSE /\ frontier' =
                                   PushAll(rest,
                                           get_successors(state, Len(explored) + 1),
                                           explored')
                              /\ UNCHANGED <<path, cost, pc, returned>>
                 ELSE /\ frontier' = rest
                      /\ UNCHANGED <<explored, path, cost, pc, returned, count>>
    /\ popped' = popped + 1
    /\ UNCHANGED <<fn, hfn, seed, init_board>>

\* a_star_node_expanded, lines 290-303: one iteration of the while loop
a_star_node_expanded_loop ==
    /\ pc = "loop" /\ fn = "a_star_node_expanded" /\ Len(frontier) # 0
    /\ count' = count + 1
    /\ \E j \in HeapTop(frontier) :
          LET state == frontier[j][2]
              rest == RemoveAt(frontier, j)
          IN  /\ pops' = Append(pops, [item |-> frontier[j],
                                        ref |-> IF InExplored(state) THEN 0
                                                ELSE Len(explored) + 1])
              /\ IF ~InExplored(state)
                 THEN /\ explored' = Append(explored, state)
                      /\ IF is_goal(state)
                         THEN /\ path' = get_path(state)
                              /\ cost' = Len(path') - 1
                              /\ returned' = <<path', cost', count'>>
                              /\ pc' = "done"
                              /\ frontier' = rest
                         ELSE /\ frontier' =
                                   PushAll(rest,
                                           get_successors(state, Len(explored) + 1),
                                           explored')
                              /\ UNCHANGED <<path, cost, pc, returned>>
                 ELSE /\ frontier' = rest
                      /\ UNCHANGED <<explored, path, cost, pc, returned>>
    /\ popped' = popped + 1
    /\ UNCHANGED <<fn, hfn, seed, init_board>>

\* a_star_node_expanded, line 307: the frontier is empty
a_star_node_expanded_exit ==
    /\ pc = "loop" /\ fn = "a_star_node_expanded" /\ Len(frontier) = 0
    /\ path' = <<>>
    /\ cost' = -1
    /\ returned' = <<<<>>, -1, -1>>
    /\ pc' = "done"
    /\ UNCHANGED <<fn, hfn, seed, init_board, frontier, explored, popped, pops,
                   count>>

\* after a_star_node_expanded has returned, a_star is called with the same
\* init_board and hfn in the same process (the same hash seed); the tuple
\* returned by a_star_node_expanded is kept for the comparison
a_star_call ==
    /\ pc = "done" /\ fn = "a_star_node_expanded"
    /\ fn' = "a_star"
    /\ pc' = "start"
    /\ frontier' = <<>>
    /\ explored' = <<>>
    /\ path' = <<>>
    /\ cost' = 0
    /\ popped' = 0
    /\ pops' = <<>>
    /\ UNCHANGED <<hfn, seed, init_board, count, returned>>

InitNodeExpanded ==
    /\ seed \in 0..(NumSeeds - 1)
    /\ fn = "a_star_node_expanded"
    /\ hfn \in {"blocking", "advanced"}
    /\ init_board \in InitBoards(MaxOthersExpanded)
    /\ pc = "start"
    /\ frontier = <<>>
    /\ explored = <<>>
    /\ path = <<>>
    /\ cost = 0
    /\ popped = 0
    /\ pops = <<>>
    /\ count = 0
    /\ returned = <<>>

NextNodeExpanded ==
    \/ a_star_node_expanded_start
    \/ a_star_node_expanded_loop
    \/ a_star_node_expanded_exit
    \/ a_star_call
    \/ a_star_start
    \/ a_star_loop
    \/ a_star_exit

SpecNodeExpanded == InitNodeExpanded /\ [][NextNodeExpanded]_vars

----------------------------------------------------------------------------
(* The puzzle itself, stated without the solver: legal slides, the goal,   *)
(* and the least number of slides to a goal board.                         *)

\* vehicle i of cars, put at coordinate v, lies inside the grid and on no
\* cell of another vehicle
RefFits(cars, i, v) ==
    LET moved == [cars[i] EXCEPT !.var_coord = v]
    IN  /\ v >= 0 /\ v + moved.length <= BoardSize
        /\ \A j \in 1..Len(cars) : j # i =>
              \A k \in 0..(moved.length - 1) :
                  IF moved.orientation = "h"
                  THEN ~Covers(cars[j], moved.fix_coord, v + k)
                  ELSE ~Covers(cars[j], v + k, moved.fix_coord)

\* vehicle i can slide to v: v differs from its coordinate and it fits at
\* every coordinate from where it is to v
RefSlide(cars, i, v) ==
    LET u == cars[i].var_coord
    IN  /\ v # u
        /\ \A w \in (IF v < u THEN v ELSE u)..(IF v < u THEN u ELSE v) :
              RefFits(cars, i, w)

\* the vehicle lists one slide away
RefMoves(cars) ==
    {[cars EXCEPT ![i] = [cars[i] EXCEPT !.var_coord = v]] :
        <<i, v>> \in {p \in (1..Len(cars)) \X (0..(BoardSize - 1)) :
                         RefSlide(cars, p[1], p[2])}}

\* a horizontal vehicle of length 2 lies on the two exit cells
RefGoal(cars) ==
    \E i \in 1..Len(cars) : cars[i] = Car("h", ExitRow, ExitCol, 2)

RECURSIVE RefLevels(_, _, _)
\* breadth-first levels: the pairs <<cars, d>> of the vehicle lists at
\* distance >= d, front being those at distance d and seen those at <= d
RefLevels(seen, front, d) ==
    IF front = {} THEN {}
    ELSE LET next == (UNION {RefMoves(b) : b \in front}) \ seen
         IN  {<<b, d>> : b \in front} \cup RefLevels(seen \cup next, next, d + 1)

\* every vehicle list reachable from cars, with its least number of slides
Distances(cars) == RefLevels({cars}, {cars}, 0)

\* the least number of slides from cars to a goal board, -1 if there is none
MinMoves(cars) ==
    LET goals == {p \in Distances(cars) : RefGoal(p[1])}
    IN  IF goals = {} THEN -1 ELSE Min({p[2] : p \in goals})

\* board b2 is board b1 with exactly one vehicle slid along its axis over
\* cells that are free in b1
OneSlide(b1, b2) ==
    /\ Len(b2.cars) = Len(b1.cars)
    /\ \E i \in 1..Len(b1.cars) :
          /\ RefSlide(b1.cars, i, b2.cars[i].var_coord)
          /\ b2.cars = [b1.cars EXCEPT ![i] =
                           [b1.cars[i] EXCEPT !.var_coord = b2.cars[i].var_coord]]
    /\ b2.grid = construct_grid(b1.size, b2.cars)

\* the goal test read off a grid
GoalGrid(grid) == grid[2][4] = "<" /\ grid[2][5] = ">"

\* the search has returned
Returned == pc = "done"

\* the states waiting in the frontier
FrontierStates ==
    IF fn = "dfs" THEN {frontier[k] : k \in 1..Len(frontier)}
    ELSE {frontier[k][2] : k \in 1..Len(frontier)}

----------------------------------------------------------------------------
(* Claims *)

\* C1: every non-empty path returned by a_star or dfs starts at the initial
\* board, ends on a board passing the goal test, and each board follows from
\* the one before by one legal slide of one vehicle.
C1_PathValid ==
    (Returned /\ path # <<>>) =>
        /\ path[1].board = init_board
        /\ GoalGrid(path[Len(path)].board.grid)
        /\ \A k \in 1..(Len(path) - 1) : OneSlide(path[k].board, path[k + 1].board)

C1_Witness == Returned /\ Len(path) >= 3 /\ fn = "dfs"

\* C2: when a goal board is reachable, a_star with blocking_heuristic returns
\* the least number of slides to a goal board, and every accepted node has the
\* least depth of its board.
C2_BlockingOptimal ==
    (Returned /\ fn = "a_star" /\ hfn = "blocking"
              /\ MinMoves(init_board.cars) # -1) =>
        /\ cost = MinMoves(init_board.cars)
        /\ \A k \in 1..Len(explored) :
              <<explored[k].board.cars, explored[k].depth>>
                  \in Distances(init_board.cars)

\* C3: a_star and dfs return ([], -1) exactly when no goal board is reachable
\* from the initial board.
C3_FailureIffUnreachable ==
    Returned => ((path = <<>> /\ cost = -1) <=> MinMoves(init_board.cars) = -1)

C3_Witness == Returned /\ path = <<>> /\ cost = -1 /\ Len(explored) >= 3

RECURSIVE Placements(_, _)
\* how many ways the vehicles k, k+1, ... of cars can each be put on its axis
Placements(cars, k) ==
    IF k > Len(cars) THEN 1
    ELSE (BoardSize - cars[k].length + 1) * Placements(cars, k + 1)

RECURSIVE MaxSlides(_, _)
\* how many slides the vehicles k, k+1, ... of cars can have at most
MaxSlides(cars, k) ==
    IF k > Len(cars) THEN 0
    ELSE (BoardSize - cars[k].length) + MaxSlides(cars, k + 1)

\* the measure of the work left: the identities not accepted yet, each worth
\* more than one expansion can push, plus the nodes waiting in the frontier
Variant ==
    LET boards == Placements(init_board.cars, 1)
        weight == MaxSlides(init_board.cars, 1) + 1
    IN  CASE pc = "start" -> boards * weight + 3
          [] pc = "loop" -> (boards - Len(explored)) * weight + Len(frontier) + 1
          [] OTHER -> 0

\* C4: every run of a_star and of dfs eventually returns, although the same
\* identity may be pushed many times: the run reaches the return, and every
\* step of it lowers a measure that never drops below 0.
C4_Terminates ==
    /\ <>Returned
    /\ [](Variant >= 0)
    /\ [][Variant' < Variant]_vars

C4_Witness == Returned /\ popped > Len(explored) /\ Len(explored) >= 5

\* the nodes the next pop may return
PoppedStates ==
    IF fn = "dfs" THEN {frontier[Len(frontier)]}
    ELSE {frontier[j][2] : j \in HeapTop(frontier)}

\* a step of the loop accepts the popped node if explored holds no node of its
\* identity, and otherwise drops it: explored stays as it is, nothing is
\* pushed and nothing is returned
AcceptOrDiscard ==
    LoopEnabled =>
        \E s \in PoppedStates :
            IF \E k \in 1..Len(explored) : explored[k].id = s.id
            THEN /\ explored' = explored
                 /\ Len(frontier') = Len(frontier) - 1
                 /\ pc' = "loop" /\ path' = path /\ cost' = cost
            ELSE explored' = Append(explored, s)

\* C5: no two accepted nodes (the elements of explored) have the same
\* identity: the first popped node of an identity is accepted, every later
\* one is discarded without goal test or expansion.
C5_NoDuplicateAccepted ==
    /\ [](\A j, k \in 1..Len(explored) :
             j # k => explored[j].id # explored[k].id)
    /\ [][AcceptOrDiscard]_vars

C5_Witness == popped >= Len(explored) + 2 /\ Len(explored) >= 2

\* C6: a returned non-empty path has cost = length - 1, and its i-th node
\* (counted from 0) has depth i.
C6_CostAndDepth ==
    (Returned /\ path # <<>>) =>
        /\ cost = Len(path) - 1
        /\ \A i \in 1..Len(path) : path[i].depth = i - 1

C6_Witness == Returned /\ Len(path) >= 4

\* the run of C7: a_star with blocking_heuristic on the board whose only
\* vehicle is the exit vehicle at columns 0-1
C7_Run ==
    /\ fn = "a_star" /\ hfn = "blocking"
    /\ init_board.cars = <<ExitCar(0)>>

\* C7 as stated: on the board holding only the exit vehicle at columns 0-1,
\* a_star with blocking_heuristic returns a path of 5 states and cost 4.
C7_FiveStatesCostFour ==
    (Returned /\ C7_Run) => (Len(path) = 5 /\ cost = 4)

\* C7 amended: on that board a_star with blocking_heuristic returns a path of
\* 2 states and cost 1 (one slide of four cells).
C7_TwoStatesCostOne ==
    (Returned /\ C7_Run) =>
        /\ Len(path) = 2 /\ cost = 1
        /\ path[2].board.cars = <<ExitCar(ExitCol)>>

C7_Witness == Returned /\ C7_Run

\* C8: blocking_heuristic is 0 exactly on the boards passing the goal test and
\* at least 1 on every other board.
C8_ZeroIffGoal ==
    \A s \in FrontierStates \cup {[board |-> init_board]} :
        /\ blocking_heuristic(s.board) = 0 <=> GoalGrid(s.board.grid)
        /\ ~GoalGrid(s.board.grid) => blocking_heuristic(s.board) >= 1

C8_Witness ==
    \E s, t \in FrontierStates :
        /\ GoalGrid(s.board.grid) /\ blocking_heuristic(s.board) = 0
        /\ ~GoalGrid(t.board.grid) /\ blocking_heuristic(t.board) >= 2

\* C9: blocking_heuristic never exceeds the least number of slides to a goal
\* board, on every initial board from which a goal board is reachable.
C9_BlockingAdmissible ==
    (pc = "start" /\ MinMoves(init_board.cars) # -1) =>
        blocking_heuristic(init_board) <= MinMoves(init_board.cars)

\* C10: advanced_heuristic never exceeds the least number of slides to a goal
\* board, on every initial board from which a goal board is reachable.
C10_AdvancedAdmissible ==
    (pc = "start" /\ MinMoves(init_board.cars) # -1) =>
        advanced_heuristic(init_board) <= MinMoves(init_board.cars)

\* the boards the run has at hand: the initial board and those in the frontier
BoardsAtHand == {init_board} \cup {s.board : s \in FrontierStates}

\* no cell of row 2 to the right of the exit vehicle (the first vehicle of the
\* list) is occupied
FreeRightOfExit(board) ==
    \A c \in (board.cars[1].var_coord + 2)..(board.size - 1) :
        board.grid[ExitRow][c] = "."

\* C11: advanced_heuristic(board) >= blocking_heuristic(board) on every board;
\* the two are equal (both 0) on every board passing the goal test, and equal
\* on every board with no occupied cell right of the exit vehicle in row 2.
C11_AdvancedDominates ==
    \A b \in BoardsAtHand :
        /\ advanced_heuristic(b) >= blocking_heuristic(b)
        /\ GoalGrid(b.grid) =>
              (advanced_heuristic(b) = 0 /\ blocking_heuristic(b) = 0)
        /\ FreeRightOfExit(b) => advanced_heuristic(b) = blocking_heuristic(b)

\* a_star_node_expanded has returned
ReturnedExpanded == pc = "done" /\ fn = "a_star_node_expanded"

\* a_star, called after a_star_node_expanded on the same arguments, has
\* returned
ReturnedBoth == pc = "done" /\ fn = "a_star" /\ returned # <<>>

\* C12 as stated: a_star_node_expanded returns the path and the cost that
\* a_star returns on the same arguments, and in every run its third result is
\* the number of nodes popped from the frontier during the run.
C12_SameResultAndPopCount ==
    /\ ReturnedBoth => (returned[1] = path /\ returned[2] = cost)
    /\ ReturnedExpanded => returned[3] = popped

\* C12 amended: a_star_node_expanded returns the path and the cost that
\* a_star returns on the same arguments; count is the number of nodes popped
\* so far, and the third result is count in the runs that find a goal and -1
\* in the runs that end with an empty frontier.
C12_SameResultPopCountOnSuccess ==
    /\ ReturnedBoth => (returned[1] = path /\ returned[2] = cost)
    /\ fn = "a_star_node_expanded" => count = popped
    /\ ReturnedExpanded =>
          /\ returned[1] = path /\ returned[2] = cost
          /\ returned[3] = (IF path # <<>> THEN popped ELSE -1)

\* both have returned from a run that ended with an empty frontier after
\* a_star_node_expanded had popped more nodes than it accepted
C12_Witness ==
    /\ ReturnedBoth /\ path = <<>> /\ cost = -1
    /\ returned = <<<<>>, -1, -1>>
    /\ count > Len(explored) + 1 /\ Len(explored) >= 3

\* the node expanded last
LastExpanded == explored[Len(explored)]

\* the glyph k cells away from vehicle i's end in direction dir (-1 towards
\* coordinate 0, 1 towards the far edge) along its axis, "#" outside the grid
CellBeyond(board, i, dir, k) ==
    LET car == board.cars[i]
        p == IF dir = 1 THEN car.var_coord + car.length - 1 + k
             ELSE car.var_coord - k
    IN  IF p < 0 \/ p >= board.size THEN "#"
        ELSE IF car.orientation = "h" THEN board.grid[car.fix_coord][p]
        ELSE board.grid[p][car.fix_coord]

\* the length of the run of free cells next to vehicle i's end in direction dir
FreeRun(board, i, dir) ==
    Max({n \in 0..board.size :
            \A k \in 1..n : CellBeyond(board, i, dir, k) = "."})

\* the vehicle lists with one vehicle shifted by k cells, k within its free run
ShiftedCars(board) ==
    {[board.cars EXCEPT ![m[1]] =
         [@ EXCEPT !.var_coord = @ + m[2] * m[3]]] :
        m \in {q \in (1..Len(board.cars)) \X {-1, 1} \X (1..board.size) :
                  q[3] <= FreeRun(board, q[1], q[2])}}

\* the latest pop was accepted: the node expanded last is expanded in this
\* state
JustAccepted == Len(pops) > 0 /\ pops[Len(pops)].ref = Len(explored)

\* C13: get_successors(node) returns exactly one successor per (vehicle,
\* direction, k), k in 1..n with n the length of the run of free cells next to
\* the vehicle's end in that direction: the vehicle shifted by k cells.  No
\* successor is an illegal slide and no stop of a legal slide is omitted.
\* Stated for every node in the state in which it is expanded.
C13_SuccessorsExact ==
    [](JustAccepted =>
        LET board == LastExpanded.board
            neighbours == get_successors(LastExpanded, Len(explored))
            got == {neighbours[k].board.cars : k \in 1..Len(neighbours)}
        IN  /\ got = ShiftedCars(board)
            /\ Len(neighbours) = Cardinality(ShiftedCars(board))
            /\ got = RefMoves(board.cars)
            /\ \A k \in 1..Len(neighbours) :
                  neighbours[k].board.grid = construct_grid(board.size,
                                                 neighbours[k].board.cars))

C13_Witness ==
    /\ JustAccepted
    /\ Len(get_successors(LastExpanded, Len(explored))) >= 8
    /\ \E i \in 1..Len(LastExpanded.board.cars) :
          /\ FreeRun(LastExpanded.board, i, -1) >= 2
          /\ FreeRun(LastExpanded.board, i, 1) = 1
          /\ CellBeyond(LastExpanded.board, i, 1, 2) \notin {".", "#"}

\* the fields of a node in the frontier: f, the heuristic function, the depth
\* and the parent
NodeFields(s) ==
    /\ s.f = s.depth + ApplyHfn(hfn, s.board)
    /\ s.hfn = hfn
    /\ fn = "dfs" => (hfn = "zero" /\ s.f = s.depth)
    /\ IF s.parent = 0
       THEN /\ s.depth = 0
            /\ s.board = init_board
            /\ s.f = ApplyHfn(hfn, init_board)
       ELSE /\ s.parent \in 1..Len(explored)
            /\ s.depth = explored[s.parent].depth + 1
            /\ s.hfn = explored[s.parent].hfn

\* the nodes a step puts in the frontier are the successors of the node it
\* has just accepted, with that node as parent
PushedByExpanded ==
    LET pushed == FrontierStates' \ FrontierStates
        ref == Len(explored')
    IN  pushed # {} =>
            IF pc = "start" THEN \A s \in pushed : s.parent = 0
            ELSE LET neighbours == get_successors(explored'[ref], ref)
                 IN  /\ explored' = Append(explored, explored'[ref])
                     /\ explored'[ref] \in PoppedStates
                     /\ pushed = {neighbours[k] : k \in 1..Len(neighbours)}
                     /\ \A s \in pushed : s.parent = ref

\* C14: every node ever placed in the frontier has f = depth + hfn(board); the
\* initial node has depth 0, no parent and f = hfn(initial board) (0 in dfs);
\* every successor has its parent's depth plus 1, its parent's heuristic
\* function, and as parent the node that was being expanded.
C14_FIsDepthPlusH ==
    /\ [](\A s \in FrontierStates : NodeFields(s))
    /\ [][PushedByExpanded]_vars

\* a frontier of a_star with advanced_heuristic holding a successor whose f is
\* its depth (a goal board) and a deeper one where the heuristic adds at least 3
C14_Witness ==
    /\ hfn = "advanced"
    /\ \E s \in FrontierStates :
          /\ s.depth >= 2 /\ s.f >= s.depth + 3
          /\ advanced_heuristic(s.board) > blocking_heuristic(s.board)
    /\ \E s \in FrontierStates : s.depth >= 2 /\ s.f = s.depth

\* the nodes in the frontier that the latest expansion has pushed; every node
\* but the initial one is among them in the state after its push
FreshStates == {s \in FrontierStates : s.parent # 0 /\ s.parent = Len(explored)}

\* the vehicles of board b that are not where they are on board p
MovedCars(p, b) ==
    {i \in 1..Len(p.cars) : b.cars[i].var_coord # p.cars[i].var_coord}

\* node s against its parent: the same vehicles in the same order, one of them
\* at another coordinate, and both boards' grids those of their vehicle lists
CopyOfParent(s) ==
    LET p == explored[s.parent].board
        b == s.board
    IN  /\ Len(b.cars) = Len(p.cars)
        /\ b.name = p.name /\ b.size = p.size
        /\ \A i \in 1..Len(p.cars) :
              /\ b.cars[i].orientation = p.cars[i].orientation
              /\ b.cars[i].fix_coord = p.cars[i].fix_coord
              /\ b.cars[i].length = p.cars[i].length
        /\ Cardinality(MovedCars(p, b)) = 1
        /\ b.grid = construct_grid(b.size, b.cars)
        /\ p.grid = construct_grid(p.size, p.cars)

\* a step of the loop leaves every node of explored as it is, accepts the
\* popped node as it was in the frontier, and leaves the nodes that stay in
\* the frontier as they are
FrameKept ==
    LoopEnabled =>
        /\ Len(explored') >= Len(explored)
        /\ SubSeq(explored', 1, Len(explored)) = explored
        /\ Len(explored') > Len(explored) =>
              explored'[Len(explored')] \in PoppedStates
        /\ Len(frontier') >= Len(frontier) - 1
        /\ IF fn = "dfs"
           THEN SubSeq(frontier', 1, Len(frontier) - 1)
                    = SubSeq(frontier, 1, Len(frontier) - 1)
           ELSE \E j \in HeapTop(frontier) :
                    SubSeq(frontier', 1, Len(frontier) - 1) = RemoveAt(frontier, j)

\* C15: expanding a node leaves the node and its board as they are; each
\* successor's vehicle list has the length and order of the parent's, with
\* every vehicle's orientation, fix_coord and length kept and exactly one
\* var_coord changed; no node in the frontier, in explored or on a parent chain
\* is changed by a later expansion.
C15_ExpansionFrame ==
    /\ [](\A s \in FreshStates : CopyOfParent(s))
    /\ [][FrameKept]_vars

C15_Witness ==
    /\ Len(explored) >= 3 /\ Len(frontier) >= 6
    /\ \E s, u \in FreshStates :
          /\ MovedCars(explored[s.parent].board, s.board) = {1}
          /\ \E i \in MovedCars(explored[u.parent].board, u.board) :
                u.board.cars[i].orientation = "v"
    /\ \E s \in FrontierStates : s.parent # 0 /\ s.parent < Len(explored)

\* the board invariant: every vehicle inside the grid, no two overlapping, and
\* the grid that of the vehicle list
BoardInvariant(b) ==
    /\ WellFormed(b.size, b.cars)
    /\ b.grid = construct_grid(b.size, b.cars)

\* the horizontal vehicles of length 2 in the exit row
ExitVehicles(b) ==
    {i \in 1..Len(b.cars) :
        /\ b.cars[i].orientation = "h"
        /\ b.cars[i].fix_coord = ExitRow
        /\ b.cars[i].length = 2}

\* the boards a step brings in: the initial board, those pushed by the latest
\* expansion, the one accepted last and those of the returned path.  Every
\* board in the frontier or in explored is one of these when it enters.
BoardsBroughtIn ==
    {s.board : s \in FreshStates}
        \cup {s.board : s \in {u \in FrontierStates : u.parent = 0}}
        \cup (IF Len(explored) > 0 THEN {LastExpanded.board} ELSE {})
        \cup {path[k].board : k \in 1..Len(path)}

\* C16: if the initial board satisfies the board invariant, every board in the
\* frontier, in explored or on a returned path satisfies it too; the exit
\* vehicle stays a horizontal vehicle of length 2 in row 2, and it stays the
\* only such vehicle if it is the only one on the initial board.
C16_BoardInvariantKept ==
    [](BoardInvariant(init_board) =>
        \A b \in BoardsBroughtIn :
            /\ BoardInvariant(b)
            /\ 1 \in ExitVehicles(b)
            /\ ExitVehicles(b) = ExitVehicles(init_board))

C16_Witness ==
    /\ Returned /\ Len(path) >= 4 /\ Len(init_board.cars) >= 3
    /\ ExitVehicles(init_board) = {1}
    /\ \E k \in 1..Len(path) :
          \E i \in 2..Len(init_board.cars) :
              /\ path[k].board.cars[i].orientation = "v"
              /\ path[k].board.cars[i].var_coord # init_board.cars[i].var_coord

\* C17: in a run of a_star with blocking_heuristic every successor pushed has
\* f >= the f of the node it was expanded from, and the f values of the nodes
\* accepted one after the other never decrease.
C17_FMonotone ==
    (fn = "a_star" /\ hfn = "blocking") =>
        /\ \A s \in FrontierStates :
              s.parent # 0 => s.f >= explored[s.parent].f
        /\ \A k \in 1..(Len(explored) - 1) : explored[k].f <= explored[k + 1].f

\* the key of a heap entry is (f, identity, parent identity) of its node, with
\* 0 as parent identity of the initial node
KeyOfNode(entry) ==
    LET s == entry[2]
    IN  entry[1] = <<s.f, s.id,
                     IF s.parent = 0 THEN ZeroId ELSE explored[s.parent].id>>

\* the positions in the frontier of the entries pushed by the latest step: the
\* successors of the node accepted last, or the initial node before any pop
FreshEntries ==
    {k \in 1..Len(frontier) : frontier[k][2].parent = Len(explored)}

\* how many of the entries pushed so far, popped or still in the frontier,
\* have the key key
Pushes(key) ==
    Cardinality({j \in 1..Len(pops) : pops[j].item[1] = key})
        + Cardinality({j \in 1..Len(frontier) : frontier[j][1] = key})

\* C18: in a run of a_star no two entries ever pushed to the frontier have the
\* same key (f, identity, parent identity), the initial node's parent identity
\* being 0; so every pop is decided by the keys alone.  Stated for the entries
\* of every push in the state after it, against every entry pushed so far; and
\* the key popped last is less than every key that stayed in the frontier.
C18_UniqueKeys ==
    (fn = "a_star" /\ pc # "start") =>
        /\ (Len(pops) = 0 \/ JustAccepted) =>
              \A k \in FreshEntries :
                  /\ KeyOfNode(frontier[k])
                  /\ Pushes(frontier[k][1]) = 1
        /\ Len(pops) > 0 =>
              \A k \in 1..Len(frontier) :
                  (JustAccepted /\ k \in FreshEntries)
                      \/ KeyLess(pops[Len(pops)].item[1], frontier[k][1])

\* two entries of equal f and identity, told apart by the parent identity
\* alone, have been pushed, and one of them has been popped
C18_Witness ==
    /\ fn = "a_star" /\ popped >= 3
    /\ \E j \in 1..Len(pops) :
          \E k \in 1..Len(frontier) :
              /\ pops[j].item[1][1] = frontier[k][1][1]
              /\ pops[j].item[1][2] = frontier[k][1][2]
              /\ pops[j].item[1][3] # frontier[k][1][3]

RECURSIVE Below(_, _)
\* node s has a node of explored with position in refs on its parent chain.
\* A node is accepted before its successors are pushed, so the positions get
\* smaller up the chain and the walk ends below the smallest of refs.
Below(s, refs) ==
    IF s.parent = 0 \/ \A r \in refs : s.parent < r THEN FALSE
    ELSE s.parent \in refs \/ Below(explored[s.parent], refs)

\* dfs: the node popped last
LastPopped == pops[Len(pops)].item

\* dfs: the pops before the last one of a sibling of the node popped last
EarlierSiblings ==
    {a \in 1..(Len(pops) - 1) :
        /\ LastPopped.parent # 0
        /\ pops[a].item.parent = LastPopped.parent}

\* the positions in explored of the earlier siblings that were accepted
EarlierSiblingRefs == {pops[a].ref : a \in EarlierSiblings} \ {0}

\* C19: in dfs the successors of one expansion are popped in ascending order
\* of identity: the one with the smallest identity right after the expansion
\* of its parent, and everything pushed by the subtree of a sibling before the
\* next sibling: when a node is popped, no node below an earlier sibling is
\* left in the stack, and between the siblings only siblings and nodes below
\* them were popped.  Stated for the node popped last, in every state.
C19_SiblingOrder ==
    []((fn = "dfs" /\ Len(pops) >= 1) =>
        /\ \A k \in 1..Len(explored) : explored[k].parent < k
        /\ \A a \in EarlierSiblings : IdLess(pops[a].item.id, LastPopped.id)
        /\ EarlierSiblingRefs # {} =>
              \A k \in 1..Len(frontier) : ~Below(frontier[k], EarlierSiblingRefs)
        /\ EarlierSiblings # {} =>
              \A c \in (Min(EarlierSiblings) + 1)..(Len(pops) - 1) :
                  c \in EarlierSiblings \/ Below(pops[c].item, EarlierSiblingRefs)
        /\ (Len(pops) >= 2 /\ pops[Len(pops) - 1].ref # 0) =>
              LET ref == pops[Len(pops) - 1].ref
                  neighbours == get_successors(explored[ref], ref)
              IN  (~is_goal(explored[ref]) /\ neighbours # <<>>) =>
                      /\ LastPopped.parent = ref
                      /\ \A k \in 1..Len(neighbours) :
                            ~IdLess(neighbours[k].id, LastPopped.id))

\* the node popped last has a sibling popped earlier, and nodes of that
\* sibling's subtree were popped in between
C19_Witness ==
    /\ fn = "dfs" /\ Len(pops) >= 4
    /\ \E a \in EarlierSiblings :
          \E c \in (a + 1)..(Len(pops) - 1) :
              /\ pops[a].ref # 0
              /\ pops[c].item.parent # pops[a].ref
              /\ Below(pops[c].item, {pops[a].ref})

\* C20: when a goal board is reachable, a_star with advanced_heuristic returns
\* the least number of slides to a goal board (the cost that a_star with
\* blocking_heuristic is to return).
C20_AdvancedOptimal ==
    (Returned /\ fn = "a_star" /\ hfn = "advanced"
              /\ MinMoves(init_board.cars) # -1) =>
        cost = MinMoves(init_board.cars)

====
